---- MODULE Spec2Model ----
(***************************************************************************)
(* Model of the hitrace crate (safe bindings for the OpenHarmony HiTrace   *)
(* sink), its level conversions, its saturating counter conversions, its   *)
(* ScopedTrace guard and the #[trace_fn] instrumentation macro.            *)
(*                                                                         *)
(* Integer widths are scaled: a 32-bit word is HalfBits bits wide, a       *)
(* 64-bit word 2*HalfBits and a 128-bit word 4*HalfBits, so that every     *)
(* value of every type can be enumerated.  Casts (`as`) truncate modulo    *)
(* 2^width exactly as in Rust.                                             *)
(***************************************************************************)
EXTENDS Integers, Sequences

VARIABLES
    convIn,     \* input of the pure conversion under test
    convOut,    \* its result
    sourceItem, \* the function as written, before #[trace_fn]
    item,       \* the syntax item handed to #[trace_fn]
    modulePath, \* module_path!() at the item's definition
    mpc,        \* position of the macro test (check_instrumentation)
    TEST_STATE, \* the test double's AtomicUsize
    frame,      \* the running call of the instrumented function
    observed,   \* what the call has done so far, in order
    cfg,        \* the build: target_env and cargo features
    guard,      \* the ScopedTrace values ever constructed, by id
    nextGuard,  \* id of the next ScopedTrace value
    scopes,     \* per thread, its open scopes, each the guards it holds
    status,     \* per thread: absent, running, the panic message while unwinding, dead
    owned,      \* per thread, the CString values it owns
    shared,     \* <<type, guard id>>: the values lent by reference to another thread
    sink,       \* the native sink: span stack per thread, calls received
    initStack,  \* per thread, the span stack when the program started
    manualOps,  \* manual start_trace / finish_trace calls made so far
    manualUsed, \* per thread, whether it made such a call
    outOfOrder, \* per thread, whether a guard was dropped out of LIFO order
    metricOps   \* count events requested so far

convVars == <<convIn, convOut>>
macroVars == <<sourceItem, item, modulePath, mpc, TEST_STATE, frame, observed>>

runVars == <<cfg, guard, nextGuard, scopes, status, owned, shared, sink,
             initStack, manualOps, manualUsed, outOfOrder, metricOps>>

vars == <<convVars, macroVars, runVars>>

-----------------------------------------------------------------------------
(* Bounds *)

\* width, in bits, of the scaled 32-bit word
HalfBits == 3
\* raw native level codes range over -1 .. MaxRaw
MaxRaw == 6
\* longest original body of an instrumented function, in statements
MaxBody == 2
\* ScopedTrace values constructed in one run
MaxGuards == 2
\* scopes open at once on one thread
MaxScopes == 2
\* manual start_trace / start_trace_ex / finish_trace calls per run
MaxManual == 1
\* count events per run
MaxMetrics == 1
\* spans already open on a thread when the program starts
MaxInitDepth == 1

-----------------------------------------------------------------------------
(* Fixed-width integers *)

Bits32 == HalfBits
Bits64 == 2 * HalfBits
Bits128 == 4 * HalfBits

\* `v as uN`
CastU(v, bits) == v % (2 ^ bits)

\* `v as iN`
CastS(v, bits) ==
    LET m == v % (2 ^ bits)
    IN  IF m >= 2 ^ (bits - 1) THEN m - 2 ^ bits ELSE m

UnsignedRange(bits) == 0 .. (2 ^ bits - 1)
SignedRange(bits) == (0 - 2 ^ (bits - 1)) .. (2 ^ (bits - 1) - 1)

I64_MAX == 2 ^ (Bits64 - 1) - 1
I64_MIN == 0 - 2 ^ (Bits64 - 1)

\* Ord::min
Min(a, b) == IF a <= b THEN a ELSE b

\* a conversion that casts without clamping first
saturating_into_u64_wrapping(self) == CastS(self, Bits64)

\* impl SaturatingIntoI64 for u64
saturating_into_u64(self) ==
    CastS(Min(self, CastU(I64_MAX, Bits64)), Bits64)

\* impl SaturatingIntoI64 for i128
saturating_into_i128(self) ==
    IF self > CastS(I64_MAX, Bits128) THEN I64_MAX
    ELSE IF self < CastS(I64_MIN, Bits128) THEN I64_MIN
    ELSE CastS(self, Bits64)

\* impl SaturatingIntoI64 for u128
saturating_into_u128(self) ==
    CastS(Min(self, CastU(I64_MAX, Bits128)), Bits64)

\* impl SaturatingIntoI64 for usize, on a target whose pointers are ptr bits
saturating_into_usize(self, ptr) ==
    CastS(Min(self, CastU(I64_MAX, ptr)), Bits64)

\* impl SaturatingIntoI64 for isize, on a target whose pointers are ptr bits
saturating_into_isize(self, ptr) ==
    IF self > CastS(I64_MAX, ptr) THEN I64_MAX
    ELSE IF self < CastS(I64_MIN, ptr) THEN I64_MIN
    ELSE CastS(self, Bits64)

-----------------------------------------------------------------------------
(* Level model (api_19) *)

\* enum HiTraceOutputLevel
HiTraceOutputLevel == {"Debug", "Info", "Critical", "Commercial", "Max"}

\* tracing_core::Level
TracingLevel == {"TRACE", "DEBUG", "INFO", "WARN", "ERROR"}

\* hitrace_sys::HiTrace_Output_Level, as raw native codes
HITRACE_LEVEL_DEBUG == 0
HITRACE_LEVEL_INFO == 1
HITRACE_LEVEL_CRITICAL == 2
HITRACE_LEVEL_COMMERCIAL == 3
HITRACE_LEVEL_MAX == 4

\* a conversion whose default arm repeats the last recognized level
FromNative_default_commercial(level) ==
    CASE level = HITRACE_LEVEL_DEBUG -> "Debug"
      [] level = HITRACE_LEVEL_INFO -> "Info"
      [] level = HITRACE_LEVEL_CRITICAL -> "Critical"
      [] OTHER -> "Commercial"

\* impl From<HiTrace_Output_Level> for HiTraceOutputLevel
FromNative(level) ==
    CASE level = HITRACE_LEVEL_DEBUG -> "Debug"
      [] level = HITRACE_LEVEL_INFO -> "Info"
      [] level = HITRACE_LEVEL_CRITICAL -> "Critical"
      [] level = HITRACE_LEVEL_COMMERCIAL -> "Commercial"
      [] OTHER -> "Max"

\* impl From<HiTraceOutputLevel> for HiTrace_Output_Level
ToNative(value) ==
    CASE value = "Info" -> HITRACE_LEVEL_INFO
      [] value = "Debug" -> HITRACE_LEVEL_DEBUG
      [] value = "Critical" -> HITRACE_LEVEL_CRITICAL
      [] value = "Commercial" -> HITRACE_LEVEL_COMMERCIAL
      [] value = "Max" -> HITRACE_LEVEL_MAX

\* impl From<tracing_core::Level> for HiTraceOutputLevel
FromTracingLevel(level) ==
    CASE level = "TRACE" -> "Debug"
      [] level = "DEBUG" -> "Info"
      [] level = "INFO" -> "Critical"
      [] level = "WARN" -> "Commercial"
      [] level = "ERROR" -> "Max"

-----------------------------------------------------------------------------
(* Inputs and results of the conversions *)

NoLevel == "-"

IntInput(kind, v, ptr) == [kind |-> kind, v |-> v, ptr |-> ptr, lvl |-> NoLevel]
LevelInput(kind, lvl) == [kind |-> kind, v |-> 0, ptr |-> 0, lvl |-> lvl]

Pending == [done |-> FALSE, v |-> 0, lvl |-> NoLevel]
IntResult(v) == [done |-> TRUE, v |-> v, lvl |-> NoLevel]
LevelResult(l) == [done |-> TRUE, v |-> 0, lvl |-> l]

ConvIdle ==
    /\ convIn = IntInput("none", 0, 0)
    /\ convOut = Pending

-----------------------------------------------------------------------------
(* The #[trace_fn] transform (macro/src/lib.rs) and its test against the   *)
(* test double (macro/tests/compile.rs).  Strings are sequences of bytes.  *)

NUL == 0
ColonColon == <<58, 58>>

\* a statement of a function body
Stmt(op, arg) == [op |-> op, arg |-> arg]

\* Vec::insert(index, element), index counted from 0
Insert(v, index, element) ==
    SubSeq(v, 1, index) \o <<element>> \o SubSeq(v, index + 1, Len(v))

\* const HITRACE_THIS_FN_NAME: &str = concat!(module_path!(), "::", #fn_name, "\0");
fn_name_statement(fn_name) == Stmt("const_name", fn_name)

\* let guard = unsafe { hitrace::ScopedTrace::_start_trace_str_with_null(HITRACE_THIS_FN_NAME) };
call_hitrace == Stmt("let_guard", <<>>)

\* a transform that appends the two statements instead of inserting them
trace_fn_appending(input) ==
    [input EXCEPT !.stmts = @ \o <<fn_name_statement(input.ident), call_hitrace>>]

\* fn trace_fn_, for an item that is a function
trace_fn_(input) ==
    [input EXCEPT !.stmts =
        Insert(Insert(input.stmts, 0, fn_name_statement(input.ident)), 1, call_hitrace)]

\* concat!(module_path!(), "::", #fn_name, "\0")
ConcatName(module, fn_name) == module \o ColonColon \o fn_name \o <<NUL>>

FnNames == {<<102>>, <<103, 111>>}
ModulePaths == {<<109>>, <<109, 58, 58, 115>>}
BodyOps == {"work", "assert_started", "return"}

Bodies == UNION {[1 .. n -> {Stmt(op, <<>>) : op \in BodyOps}] : n \in 0 .. MaxBody}

Items ==
    {[kind |-> "fn", ident |-> f, stmts |-> b] : f \in FnNames, b \in Bodies}
    \cup {[kind |-> "struct", ident |-> f, stmts |-> <<>>] : f \in FnNames}

NoCall == [pc |-> 0, name |-> <<>>, locals |-> <<>>]

Event(ev, name) == [ev |-> ev, name |-> name]

MacroIdle ==
    /\ item = [kind |-> "none", ident |-> <<>>, stmts |-> <<>>]
    /\ sourceItem = item
    /\ modulePath = <<>>
    /\ mpc = "idle"
    /\ TEST_STATE = 0
    /\ frame = NoCall
    /\ observed = <<>>

\* the test double's Drop for ScopedTrace, run for the locals of a scope in
\* reverse order of declaration; a failed expect aborts
RECURSIVE DropLocals(_, _, _)
DropLocals(locals, state, log) ==
    IF locals = <<>> THEN [ok |-> TRUE, state |-> state, log |-> log]
    ELSE IF state = 1
         THEN DropLocals(SubSeq(locals, 1, Len(locals) - 1), 2,
                         Append(log, Event("finish", <<>>)))
         ELSE [ok |-> FALSE, state |-> state, log |-> log]

\* leaving the function body: normally, by an early return, or by unwinding
LeaveBody(how, locals, log) ==
    LET d == DropLocals(locals, TEST_STATE, log)
    IN  /\ TEST_STATE' = d.state
        /\ observed' = d.log
        /\ frame' = [frame EXCEPT !.locals = <<>>]
        /\ mpc' = IF ~d.ok THEN "aborted" ELSE how

\* #[trace_fn] applied to the item
Expand ==
    /\ mpc = "source"
    /\ IF item.kind = "fn"
       THEN /\ item' = trace_fn_(item)
            /\ mpc' = "expanded"
       ELSE /\ mpc' = "build_failed"
            /\ UNCHANGED item
    /\ UNCHANGED <<sourceItem, modulePath, TEST_STATE, frame, observed, convVars, runVars>>

\* check_instrumentation: the first assert_eq and the call
CheckBefore ==
    /\ mpc = "expanded"
    /\ IF TEST_STATE = 0
       THEN /\ mpc' = "running"
            /\ frame' = [NoCall EXCEPT !.pc = 1]
       ELSE /\ mpc' = "panicked"
            /\ UNCHANGED frame
    /\ UNCHANGED <<sourceItem, item, modulePath, TEST_STATE, observed, convVars, runVars>>

Advance == [frame EXCEPT !.pc = @ + 1]

\* the const item of the expanded body
ExecConst ==
    /\ mpc = "running" /\ frame.pc <= Len(item.stmts)
    /\ item.stmts[frame.pc].op = "const_name"
    /\ frame' = [Advance EXCEPT !.name = ConcatName(modulePath, item.stmts[frame.pc].arg)]
    /\ UNCHANGED <<sourceItem, item, modulePath, mpc, TEST_STATE, observed, convVars, runVars>>

\* the let binding of the guard: the double's _start_trace_str_with_null
ExecLetGuard ==
    /\ mpc = "running" /\ frame.pc <= Len(item.stmts)
    /\ item.stmts[frame.pc].op = "let_guard"
    /\ IF /\ frame.name # <<>>
          /\ frame.name[Len(frame.name)] = NUL
          /\ TEST_STATE = 0
       THEN /\ TEST_STATE' = 1
            /\ frame' = [Advance EXCEPT !.locals = Append(@, "guard")]
            /\ observed' = Append(observed, Event("start", frame.name))
            /\ UNCHANGED mpc
       ELSE LeaveBody("panicked", frame.locals, observed)
    /\ UNCHANGED <<sourceItem, item, modulePath, convVars, runVars>>

\* a statement of the original body
ExecBody ==
    /\ mpc = "running" /\ frame.pc <= Len(item.stmts)
    /\ LET op == item.stmts[frame.pc].op
       IN  /\ op \in BodyOps
           /\ CASE op = "work" ->
                     /\ frame' = Advance
                     /\ observed' = Append(observed, Event("body", <<>>))
                     /\ UNCHANGED <<mpc, TEST_STATE>>
                [] op = "assert_started" ->
                     IF TEST_STATE = 1
                     THEN /\ frame' = Advance
                          /\ observed' = Append(observed, Event("body", <<>>))
                          /\ UNCHANGED <<mpc, TEST_STATE>>
                     ELSE LeaveBody("panicked", frame.locals, observed)
                [] op = "return" ->
                     LeaveBody("returned", frame.locals,
                               Append(observed, Event("body", <<>>)))
    /\ UNCHANGED <<sourceItem, item, modulePath, convVars, runVars>>

\* the end of the function body
FnReturn ==
    /\ mpc = "running" /\ frame.pc > Len(item.stmts)
    /\ LeaveBody("returned", frame.locals, observed)
    /\ UNCHANGED <<sourceItem, item, modulePath, convVars, runVars>>

\* check_instrumentation: the second assert_eq
CheckAfter ==
    /\ mpc = "returned"
    /\ mpc' = IF TEST_STATE = 2 THEN "passed" ELSE "panicked"
    /\ UNCHANGED <<sourceItem, item, modulePath, TEST_STATE, frame, observed, convVars, runVars>>

NextMacro ==
    \/ Expand
    \/ CheckBefore
    \/ ExecConst
    \/ ExecLetGuard
    \/ ExecBody
    \/ FnReturn
    \/ CheckAfter

-----------------------------------------------------------------------------
(* Claims about the instrumentation transform *)

\* the statements of a body that run: up to and including the first return
RECURSIVE Executed(_)
Executed(body) ==
    IF body = <<>> THEN <<>>
    ELSE IF body[1].op = "return" THEN <<body[1]>>
    ELSE <<body[1]>> \o Executed(Tail(body))

\* the next thing the call does belongs to the original body, or is its end
InBody ==
    /\ mpc = "running"
    /\ \/ frame.pc > Len(item.stmts)
       \/ item.stmts[frame.pc].op \in BodyOps

AfterCall == mpc \in {"returned", "passed"}

BodyEvents(n) == [i \in 1 .. n |-> Event("body", <<>>)]

StartEvent == Event("start", ConcatName(modulePath, sourceItem.ident))

\* C2: a call of a #[trace_fn] function opens the span named
\* "<module path>::<function name>\0", then runs the original body with the
\* guard alive, then closes the span exactly once; the test double's state is
\* 0 before the call, 1 inside the body and 2 after it.
C2_TraceFnSequence ==
    /\ mpc \notin {"panicked", "aborted"}
    /\ mpc \in {"source", "expanded"} => (TEST_STATE = 0 /\ observed = <<>>)
    /\ InBody =>
          /\ TEST_STATE = 1
          /\ frame.locals = <<"guard">>
          /\ \E n \in 0 .. Len(sourceItem.stmts) :
                observed = <<StartEvent>> \o BodyEvents(n)
    /\ AfterCall =>
          /\ TEST_STATE = 2
          /\ frame.locals = <<>>
          /\ observed = <<StartEvent>>
                            \o BodyEvents(Len(Executed(sourceItem.stmts)))
                            \o <<Event("finish", <<>>)>>

\* an instrumented function with a body has been called and has returned
C2_Witness ==
    /\ mpc = "passed"
    /\ TEST_STATE = 2
    /\ Len(sourceItem.stmts) > 0
    /\ Len(observed) >= 3

-----------------------------------------------------------------------------
(* The pure conversions, applied to every input of their domain *)

PtrWidths == {Bits32, Bits64}

\* the inputs: every value of every source type, at each pointer width
ConvInput(x) ==
    \/ \E v \in UnsignedRange(Bits64) : x = IntInput("u64", v, 0)
    \/ \E v \in SignedRange(Bits128) : x = IntInput("i128", v, 0)
    \/ \E v \in UnsignedRange(Bits128) : x = IntInput("u128", v, 0)
    \/ \E w \in PtrWidths : \E v \in UnsignedRange(w) : x = IntInput("usize", v, w)
    \/ \E w \in PtrWidths : \E v \in SignedRange(w) : x = IntInput("isize", v, w)
    \/ \E l \in TracingLevel : x = LevelInput("tracing", l)
    \/ \E l \in HiTraceOutputLevel : x = LevelInput("output", l)
    \/ \E r \in (0 - 1) .. MaxRaw : x = IntInput("native", r, 0)

ApplyU64 ==
    /\ convIn.kind = "u64" /\ ~convOut.done
    /\ convOut' = IntResult(saturating_into_u64(convIn.v))
    /\ UNCHANGED <<convIn, macroVars, runVars>>

ApplyI128 ==
    /\ convIn.kind = "i128" /\ ~convOut.done
    /\ convOut' = IntResult(saturating_into_i128(convIn.v))
    /\ UNCHANGED <<convIn, macroVars, runVars>>

ApplyU128 ==
    /\ convIn.kind = "u128" /\ ~convOut.done
    /\ convOut' = IntResult(saturating_into_u128(convIn.v))
    /\ UNCHANGED <<convIn, macroVars, runVars>>

ApplyUsize ==
    /\ convIn.kind = "usize" /\ ~convOut.done
    /\ convOut' = IntResult(saturating_into_usize(convIn.v, convIn.ptr))
    /\ UNCHANGED <<convIn, macroVars, runVars>>

ApplyIsize ==
    /\ convIn.kind = "isize" /\ ~convOut.done
    /\ convOut' = IntResult(saturating_into_isize(convIn.v, convIn.ptr))
    /\ UNCHANGED <<convIn, macroVars, runVars>>

ApplyFromTracingLevel ==
    /\ convIn.kind = "tracing" /\ ~convOut.done
    /\ convOut' = LevelResult(FromTracingLevel(convIn.lvl))
    /\ UNCHANGED <<convIn, macroVars, runVars>>

ApplyFromNative ==
    /\ convIn.kind = "native" /\ ~convOut.done
    /\ convOut' = LevelResult(FromNative(convIn.v))
    /\ UNCHANGED <<convIn, macroVars, runVars>>

ApplyToNative ==
    /\ convIn.kind = "output" /\ ~convOut.done
    /\ convOut' = IntResult(ToNative(convIn.lvl))
    /\ UNCHANGED <<convIn, macroVars, runVars>>

NextConv ==
    \/ ApplyU64
    \/ ApplyI128
    \/ ApplyU128
    \/ ApplyUsize
    \/ ApplyIsize
    \/ ApplyFromTracingLevel
    \/ ApplyFromNative
    \/ ApplyToNative

-----------------------------------------------------------------------------
(* Claims about the conversions *)

\* the mathematical clamp of v to the i64 range
Clamp(v) == IF v > I64_MAX THEN I64_MAX ELSE IF v < I64_MIN THEN I64_MIN ELSE v

\* C3: the conversion from the five-valued log level returns one of the four
\* informative levels (never Max), and Trace and Debug both give Debug.
C3_FromLogLevel ==
    (convOut.done /\ convIn.kind = "tracing") =>
        /\ convOut.lvl \in {"Debug", "Info", "Critical", "Commercial"}
        /\ (convIn.lvl \in {"TRACE", "DEBUG"} => convOut.lvl = "Debug")

\* C4: for u64, u128 and i128, saturating_into returns the input when it lies
\* in the i64 range, i64::MAX above it and i64::MIN below it.
C4_SaturatingFixed ==
    (convOut.done /\ convIn.kind \in {"u64", "u128", "i128"}) =>
        convOut.v = Clamp(convIn.v)

\* u128::MAX has been converted, to i64::MAX
C4_Witness ==
    /\ convOut.done /\ convIn.kind = "u128"
    /\ convIn.v = 2 ^ Bits128 - 1
    /\ convOut.v = I64_MAX

\* C5: for usize and isize, at both pointer widths, saturating_into returns
\* the input when it lies in the i64 range and clamps only otherwise.
C5_SaturatingPointerSized ==
    (convOut.done /\ convIn.kind \in {"usize", "isize"}) =>
        convOut.v = Clamp(convIn.v)

RecognizedCodes ==
    {HITRACE_LEVEL_DEBUG, HITRACE_LEVEL_INFO, HITRACE_LEVEL_CRITICAL,
     HITRACE_LEVEL_COMMERCIAL}

\* C8: the conversion from the native level is total: the four recognized
\* codes give Debug, Info, Critical, Commercial and every other raw value
\* gives Max.
C8_FromNativeTotal ==
    (convOut.done /\ convIn.kind = "native") =>
        /\ convOut.lvl \in HiTraceOutputLevel
        /\ (convIn.v = HITRACE_LEVEL_DEBUG => convOut.lvl = "Debug")
        /\ (convIn.v = HITRACE_LEVEL_INFO => convOut.lvl = "Info")
        /\ (convIn.v = HITRACE_LEVEL_CRITICAL => convOut.lvl = "Critical")
        /\ (convIn.v = HITRACE_LEVEL_COMMERCIAL => convOut.lvl = "Commercial")
        /\ (convIn.v \notin RecognizedCodes => convOut.lvl = "Max")

\* an unrecognized raw code has been converted, to Max
C8_Witness ==
    /\ convOut.done /\ convIn.kind = "native"
    /\ convIn.v \notin RecognizedCodes
    /\ convOut.lvl = "Max"

-----------------------------------------------------------------------------
(* The span primitives and the ScopedTrace guard (hitrace/src/lib.rs)      *)

Threads == {1, 2}

Front(q) == SubSeq(q, 1, Len(q) - 1)

\* #[cfg(all(target_env = "ohos", not(feature = "max_level_off")))]
SinkAvailable(c) == c.ohos /\ ~c.max_level_off

Builds == [ohos : BOOLEAN, max_level_off : BOOLEAN, api19 : BOOLEAN]

\* the items of the public call surface that exist in build c
PublicSurface(c) ==
    {"start_trace", "finish_trace", "trace_metric_str",
     "trace_metric_saturating", "trace_metric_saturating_str",
     "ScopedTrace::start_trace", "ScopedTrace::start_trace_str",
     "ScopedTrace::_start_trace_str_with_null", "Drop for ScopedTrace"}
    \cup (IF c.api19 /\ c.ohos /\ ~c.max_level_off THEN {"start_trace_ex"} ELSE {})

\* a span frame of the sink; by is the guard whose construction opened it
\* (0 for a manual start), level the native level of StartTraceEx (-1 if none)
Span(by, name, level) == [by |-> by, name |-> name, level |-> level]

\* The native sink.  stack[t]: the open span frames of thread t; calls: the
\* calls received; underflow[t]: a finish arrived with no frame open.  Per
\* guard g: starts[g] and finishes[g] count the calls issued by g's
\* construction and destruction, startedOn[g] and finishedOn[g] are the
\* calling threads (0 before), closed[g] is the opener of the frame g's
\* finish closed (NotYet before, NoSpan if it closed none), closer[g] is who
\* closed the frame g opened (NotYet, 0 for a manual finish)
NotYet == 0 - 2
NoSpan == 0 - 1

Bump(f, g) == IF g \in DOMAIN f THEN [f EXCEPT ![g] = @ + 1] ELSE f
Put(f, g, x) == IF g \in DOMAIN f THEN [f EXCEPT ![g] = x] ELSE f

\* hitrace_sys::OH_HiTrace_StartTrace / OH_HiTrace_StartTraceEx, called on t
OH_HiTrace_StartTrace(s, t, span) ==
    [s EXCEPT !.stack[t] = Append(@, span),
              !.calls = @ + 1,
              !.starts = Bump(@, span.by),
              !.startedOn = Put(@, span.by, t)]

\* hitrace_sys::OH_HiTrace_FinishTrace, called on t: closes the most
\* recently started span of t
OH_HiTrace_FinishTrace(s, t, by) ==
    IF s.stack[t] = <<>>
    THEN [s EXCEPT !.calls = @ + 1,
                   !.finishes = Bump(@, by),
                   !.finishedOn = Put(@, by, t),
                   !.closed = Put(@, by, NoSpan),
                   !.underflow[t] = TRUE]
    ELSE [s EXCEPT !.stack[t] = Front(@),
                   !.calls = @ + 1,
                   !.finishes = Bump(@, by),
                   !.finishedOn = Put(@, by, t),
                   !.closed = Put(@, by, s.stack[t][Len(s.stack[t])].by),
                   !.closer = Put(@, s.stack[t][Len(s.stack[t])].by, by)]

\* hitrace_sys::OH_HiTrace_CountTrace
OH_HiTrace_CountTrace(s, name, count) ==
    [s EXCEPT !.calls = @ + 1,
              !.lastName = name,
              !.lastCount = count]

\* a start_trace_cstr whose forwarding variant was compiled out
start_trace_cstr_noop(c, s, t, name, by) == s

\* fn start_trace_cstr (both cfg variants)
start_trace_cstr(c, s, t, name, by) ==
    IF SinkAvailable(c) THEN OH_HiTrace_StartTrace(s, t, Span(by, name, -1)) ELSE s

\* pub fn start_trace
start_trace(c, s, t, name, by) == start_trace_cstr(c, s, t, name, by)

\* fn start_trace_ex_cstr
start_trace_ex_cstr(c, s, t, level, name, custom_args) ==
    OH_HiTrace_StartTrace(s, t, Span(0, name, ToNative(level)))

\* pub fn finish_trace (both cfg variants of finish_trace_)
finish_trace(c, s, t, by) ==
    IF SinkAvailable(c) THEN OH_HiTrace_FinishTrace(s, t, by) ELSE s

\* fn trace_metric_cstr (both cfg variants)
trace_metric_cstr(c, s, name, count) ==
    IF SinkAvailable(c) THEN OH_HiTrace_CountTrace(s, name, count) ELSE s

HasNul(str) == \E i \in 1 .. Len(str) : str[i] = NUL

\* a constructor that accepts any bytes
CString_new_unchecked(str) == [ok |-> TRUE, value |-> str \o <<NUL>>]

\* CString::new: fails on an interior or trailing NUL, else appends the terminator
CString_new(str) ==
    IF HasNul(str) THEN [ok |-> FALSE, value |-> <<>>]
    ELSE [ok |-> TRUE, value |-> str \o <<NUL>>]

\* the auto traits of the types involved: a struct has one when all its
\* fields have it, PhantomData<T> when T has it, a raw pointer never
\* a ScopedTrace without the marker field
ScopedTraceFields_none == <<>>

\* struct ScopedTrace { phantom_data: PhantomData<*mut u8> }
ScopedTraceFields == <<"PhantomData<*mut u8>">>

RECURSIVE IsSend(_)
IsSend(ty) ==
    CASE ty = "*mut u8" -> FALSE
      [] ty = "PhantomData<*mut u8>" -> IsSend("*mut u8")
      [] ty = "ScopedTrace" ->
            \A i \in 1 .. Len(ScopedTraceFields) : IsSend(ScopedTraceFields[i])
      [] OTHER -> TRUE

RECURSIVE IsSync(_)
IsSync(ty) ==
    CASE ty = "*mut u8" -> FALSE
      [] ty = "PhantomData<*mut u8>" -> IsSync("*mut u8")
      [] ty = "ScopedTrace" ->
            \A i \in 1 .. Len(ScopedTraceFields) : IsSync(ScopedTraceFields[i])
      [] OTHER -> TRUE

GuardIds == 1 .. MaxGuards

Unborn == [state |-> "unborn", thread |-> 0, bornOn |-> 0]

\* names handed to the operations
CStrNames == {<<97, NUL>>}
StrNames == {<<97>>, <<97, NUL, 98>>}
MacroNames == {<<97, NUL>>}
ExLevels == {"Info"}
ExactCounts == {I64_MAX}
Counts == {2 ^ Bits64 - 1}

NoSink ==
    [stack |-> [t \in Threads |-> <<>>], calls |-> 0,
     underflow |-> [t \in Threads |-> FALSE],
     lastName |-> <<>>, lastCount |-> 0,
     starts |-> [g \in GuardIds |-> 0], finishes |-> [g \in GuardIds |-> 0],
     startedOn |-> [g \in GuardIds |-> 0], finishedOn |-> [g \in GuardIds |-> 0],
     closed |-> [g \in GuardIds |-> NotYet], closer |-> [g \in GuardIds |-> NotYet]]

Running == "running"
Absent == "absent"

RunIdle ==
    /\ cfg = [ohos |-> FALSE, max_level_off |-> FALSE, api19 |-> FALSE]
    /\ guard = [g \in GuardIds |-> Unborn]
    /\ nextGuard = 1
    /\ scopes = [t \in Threads |-> <<>>]
    /\ status = [t \in Threads |-> Running]
    /\ owned = [t \in Threads |-> {}]
    /\ shared = {}
    /\ sink = NoSink
    /\ initStack = [t \in Threads |-> <<>>]
    /\ manualOps = 0
    /\ manualUsed = [t \in Threads |-> FALSE]
    /\ outOfOrder = [t \in Threads |-> FALSE]
    /\ metricOps = 0

\* spans opened before the program under study started
PreStacks(depth) ==
    UNION {[1 .. n -> {Span(0, <<97, NUL>>, -1)}] : n \in 0 .. depth}

\* the state after start-up of a build in builds, with the threads in ts
\* running and at most depth spans already open on each
Start(ts, builds, depth) ==
    /\ cfg \in builds
    /\ guard = [g \in GuardIds |-> Unborn]
    /\ nextGuard = 1
    /\ scopes = [t \in Threads |-> <<>>]
    /\ status = [t \in Threads |-> IF t \in ts THEN Running ELSE Absent]
    /\ owned = [t \in Threads |-> IF t = 1 THEN CStrNames ELSE {}]
    /\ shared = {}
    /\ \E pre \in (IF SinkAvailable(cfg) THEN PreStacks(depth) ELSE {<<>>}) :
            initStack = [t \in Threads |-> pre]
    /\ sink = [NoSink EXCEPT !.stack = initStack]
    /\ manualOps = 0
    /\ manualUsed = [t \in Threads |-> FALSE]
    /\ outOfOrder = [t \in Threads |-> FALSE]
    /\ metricOps = 0
    /\ ConvIdle
    /\ MacroIdle

\* a program that uses the whole call surface on one thread
Init == Start({1}, Builds, MaxInitDepth)

\* a program whose two threads use the guard; start_trace_ex, the only item
\* that depends on api-19, is not called
InitThreads == Start(Threads, {b \in Builds : ~b.api19}, 0)

\* the guards a thread holds, outermost scope first, in order of declaration
RECURSIVE Flatten(_)
Flatten(ss) == IF ss = <<>> THEN <<>> ELSE ss[1] \o Flatten(Tail(ss))

Live(t) == Flatten(scopes[t])

\* a drop that forgets to finish the span
drop_without_finish(c, s, t, g) == s

\* impl Drop for ScopedTrace
drop(c, s, t, g) == finish_trace(c, s, t, g)

\* the drops of a scope's locals, last declared first
RECURSIVE DropAll(_, _, _, _)
DropAll(c, s, t, gs) ==
    IF gs = <<>> THEN s
    ELSE DropAll(c, drop(c, s, t, gs[Len(gs)]), t, Front(gs))

Close(gs) ==
    [g \in GuardIds |->
        IF \E i \in 1 .. Len(gs) : gs[i] = g
        THEN [guard[g] EXCEPT !.state = "closed"]
        ELSE guard[g]]

CanRun(t) == status[t] = Running

\* a block or function body is entered
EnterScope(t) ==
    /\ CanRun(t)
    /\ Len(scopes[t]) < MaxScopes
    /\ scopes' = [scopes EXCEPT ![t] = Append(@, <<>>)]
    /\ UNCHANGED <<cfg, guard, nextGuard, status, owned, shared, sink,
                   initStack, manualOps, manualUsed, outOfOrder, metricOps, convVars, macroVars>>

\* a new guard value bound to a local of the innermost scope of t
Bind(t) ==
    /\ guard' = [guard EXCEPT ![nextGuard] =
                    [state |-> "open", thread |-> t, bornOn |-> t]]
    /\ nextGuard' = nextGuard + 1
    /\ scopes' = [scopes EXCEPT ![t][Len(scopes[t])] = Append(@, nextGuard)]

CanBind(t) ==
    /\ CanRun(t)
    /\ scopes[t] # <<>>
    /\ nextGuard <= MaxGuards

\* ScopedTrace::start_trace(&name)
ScopedTrace_start_trace(t, name) ==
    /\ CanBind(t)
    /\ name \in owned[t]
    /\ sink' = start_trace(cfg, sink, t, name, nextGuard)
    /\ Bind(t)
    /\ UNCHANGED <<cfg, status, owned, shared, initStack, manualOps, manualUsed,
                   outOfOrder, metricOps, convVars, macroVars>>

\* ScopedTrace::start_trace_str(name)
ScopedTrace_start_trace_str(t, name) ==
    /\ CanBind(t)
    /\ LET c_string == CString_new(name)
       IN  IF c_string.ok
           THEN /\ sink' = start_trace(cfg, sink, t, c_string.value, nextGuard)
                /\ Bind(t)
                /\ UNCHANGED status
           ELSE /\ status' = [status EXCEPT ![t] = "Contained null-byte"]
                /\ UNCHANGED <<sink, guard, nextGuard, scopes>>
    /\ UNCHANGED <<cfg, owned, shared, initStack, manualOps, manualUsed, outOfOrder,
                   metricOps, convVars, macroVars>>

\* ScopedTrace::_start_trace_str_with_null(name_with_null)
_start_trace_str_with_null(t, name_with_null) ==
    /\ CanBind(t)
    /\ sink' = IF SinkAvailable(cfg)
                THEN OH_HiTrace_StartTrace(sink, t, Span(nextGuard, name_with_null, -1))
                ELSE sink
    /\ Bind(t)
    /\ UNCHANGED <<cfg, status, owned, shared, initStack, manualOps, manualUsed,
                   outOfOrder, metricOps, convVars, macroVars>>

Dead == "dead"

\* a panic on thread t: the message is kept while the thread unwinds
Panics(t, message) == status' = [status EXCEPT ![t] = message]

\* hitrace::start_trace(&name), called directly
Call_start_trace(t, name) ==
    /\ CanRun(t)
    /\ name \in owned[t]
    /\ manualOps < MaxManual
    /\ sink' = start_trace(cfg, sink, t, name, 0)
    /\ manualOps' = manualOps + 1
    /\ manualUsed' = [manualUsed EXCEPT ![t] = TRUE]
    /\ UNCHANGED <<cfg, guard, nextGuard, scopes, status, owned, shared,
                   initStack, outOfOrder, metricOps, convVars, macroVars>>

\* hitrace::start_trace_ex(level, &name, &custom_args), where it exists
Call_start_trace_ex(t, level, name) ==
    /\ CanRun(t)
    /\ "start_trace_ex" \in PublicSurface(cfg)
    /\ name \in owned[t]
    /\ manualOps < MaxManual
    /\ sink' = start_trace_ex_cstr(cfg, sink, t, level, name, name)
    /\ manualOps' = manualOps + 1
    /\ manualUsed' = [manualUsed EXCEPT ![t] = TRUE]
    /\ UNCHANGED <<cfg, guard, nextGuard, scopes, status, owned, shared,
                   initStack, outOfOrder, metricOps, convVars, macroVars>>

\* hitrace::finish_trace(), called directly
Call_finish_trace(t) ==
    /\ CanRun(t)
    /\ manualOps < MaxManual
    /\ sink' = finish_trace(cfg, sink, t, 0)
    /\ manualOps' = manualOps + 1
    /\ manualUsed' = [manualUsed EXCEPT ![t] = TRUE]
    /\ UNCHANGED <<cfg, guard, nextGuard, scopes, status, owned, shared,
                   initStack, outOfOrder, metricOps, convVars, macroVars>>

\* hitrace::trace_metric_str(name, count), count already an i64
Call_trace_metric_str(t, name, count) ==
    /\ CanRun(t)
    /\ metricOps < MaxMetrics
    /\ metricOps' = metricOps + 1
    /\ LET c_string == CString_new(name)
       IN  IF c_string.ok
           THEN /\ sink' = trace_metric_cstr(cfg, sink, c_string.value, count)
                /\ UNCHANGED status
           ELSE /\ Panics(t, "Failed to convert to CString")
                /\ UNCHANGED sink
    /\ UNCHANGED <<cfg, guard, nextGuard, scopes, owned, shared, initStack,
                   manualOps, manualUsed, outOfOrder, convVars, macroVars>>

\* hitrace::trace_metric_saturating(&name, count), count a u64
Call_trace_metric_saturating(t, name, count) ==
    /\ CanRun(t)
    /\ name \in owned[t]
    /\ metricOps < MaxMetrics
    /\ metricOps' = metricOps + 1
    /\ sink' = trace_metric_cstr(cfg, sink, name, saturating_into_u64(count))
    /\ UNCHANGED <<cfg, guard, nextGuard, scopes, status, owned, shared,
                   initStack, manualOps, manualUsed, outOfOrder, convVars, macroVars>>

\* hitrace::trace_metric_saturating_str(name, count), count a u64
Call_trace_metric_saturating_str(t, name, count) ==
    /\ CanRun(t)
    /\ metricOps < MaxMetrics
    /\ metricOps' = metricOps + 1
    /\ LET c_string == CString_new(name)
       IN  IF c_string.ok
           THEN /\ sink' = trace_metric_cstr(cfg, sink, c_string.value,
                                              saturating_into_u64(count))
                /\ UNCHANGED status
           ELSE /\ Panics(t, "Failed to convert to CString")
                /\ UNCHANGED sink
    /\ UNCHANGED <<cfg, guard, nextGuard, scopes, owned, shared, initStack,
                   manualOps, manualUsed, outOfOrder, convVars, macroVars>>

ExitWays == {"normal", "return"}

\* the scopes a thread leaves: the innermost one when control falls off its
\* end, all of them on a return from the function
Left(t, how) ==
    IF how = "normal" THEN <<scopes[t][Len(scopes[t])]>> ELSE scopes[t]

\* control leaves the innermost scope, or returns early from the function
ExitScope(t, how) ==
    /\ CanRun(t)
    /\ scopes[t] # <<>>
    /\ LET gs == Flatten(Left(t, how))
       IN  /\ sink' = DropAll(cfg, sink, t, gs)
           /\ guard' = Close(gs)
    /\ scopes' = [scopes EXCEPT ![t] =
                     IF how = "normal" THEN Front(@) ELSE <<>>]
    /\ UNCHANGED <<cfg, nextGuard, status, owned, shared, initStack,
                   manualOps, manualUsed, outOfOrder, metricOps, convVars, macroVars>>

\* a panic raised by the code running inside a scope
Panic(t) ==
    /\ CanRun(t)
    /\ scopes[t] # <<>>
    /\ Panics(t, "explicit panic")
    /\ UNCHANGED <<cfg, guard, nextGuard, scopes, owned, shared, sink,
                   initStack, manualOps, manualUsed, outOfOrder, metricOps, convVars, macroVars>>

\* unwinding after a panic: every scope of the thread is left
Unwind(t) ==
    /\ status[t] \notin {Running, Absent, Dead}
    /\ sink' = DropAll(cfg, sink, t, Live(t))
    /\ guard' = Close(Live(t))
    /\ scopes' = [scopes EXCEPT ![t] = <<>>]
    /\ status' = [status EXCEPT ![t] = Dead]
    /\ UNCHANGED <<cfg, nextGuard, owned, shared, initStack, manualOps, manualUsed,
                   outOfOrder, metricOps, convVars, macroVars>>

Without(q, g) == SelectSeq(q, LAMBDA x : x # g)

\* std::mem::drop(guard) on any guard the thread holds
DropExplicit(t, g) ==
    /\ CanRun(t)
    /\ \E i \in 1 .. Len(Live(t)) : Live(t)[i] = g
    /\ sink' = drop(cfg, sink, t, g)
    /\ guard' = Close(<<g>>)
    /\ scopes' = [scopes EXCEPT ![t] = [i \in 1 .. Len(@) |-> Without(@[i], g)]]
    /\ outOfOrder' = [outOfOrder EXCEPT ![t] = @ \/ Live(t)[Len(Live(t))] # g]
    /\ UNCHANGED <<cfg, nextGuard, status, owned, shared, initStack,
                   manualOps, manualUsed, metricOps, convVars, macroVars>>

\* a value a thread holds: a CString or a guard
Value(ty, name, g) == [ty |-> ty, name |-> name, g |-> g]

Held(t) ==
    {Value("CString", n, 0) : n \in owned[t]}
    \cup {Value("ScopedTrace", <<>>, Live(t)[i]) : i \in 1 .. Len(Live(t))}

\* a value is moved to another thread (spawn, channel): its type must be Send
Transfer(t, u, v) ==
    /\ CanRun(t) /\ CanRun(u) /\ t # u
    /\ v \in Held(t)
    /\ IsSend(v.ty)
    /\ IF v.ty = "CString"
       THEN /\ owned' = [owned EXCEPT ![t] = @ \ {v.name}, ![u] = @ \cup {v.name}]
            /\ UNCHANGED <<guard, scopes>>
       ELSE /\ scopes[u] # <<>>
            /\ scopes' = [scopes EXCEPT
                             ![t] = [i \in 1 .. Len(@) |-> Without(@[i], v.g)],
                             ![u][Len(scopes[u])] = Append(@, v.g)]
            /\ guard' = [guard EXCEPT ![v.g].thread = u]
            /\ UNCHANGED owned
    /\ UNCHANGED <<cfg, nextGuard, status, shared, sink, initStack,
                   manualOps, manualUsed, outOfOrder, metricOps, convVars, macroVars>>

\* a reference to a value is lent to another thread: its type must be Sync
Share(t, u, v) ==
    /\ CanRun(t) /\ CanRun(u) /\ t # u
    /\ v \in Held(t)
    /\ IsSync(v.ty)
    /\ shared' = shared \cup {<<v.ty, v.g>>}
    /\ UNCHANGED <<cfg, guard, nextGuard, scopes, status, owned, sink,
                   initStack, manualOps, manualUsed, outOfOrder, metricOps, convVars, macroVars>>

Next ==
    \/ \E t \in Threads : EnterScope(t)
    \/ \E t \in Threads, name \in CStrNames : ScopedTrace_start_trace(t, name)
    \/ \E t \in Threads, name \in StrNames : ScopedTrace_start_trace_str(t, name)
    \/ \E t \in Threads, name \in MacroNames : _start_trace_str_with_null(t, name)
    \/ \E t \in Threads, name \in CStrNames : Call_start_trace(t, name)
    \/ \E t \in Threads, level \in ExLevels, name \in CStrNames :
            Call_start_trace_ex(t, level, name)
    \/ \E t \in Threads : Call_finish_trace(t)
    \/ \E t \in Threads, name \in StrNames, count \in ExactCounts :
            Call_trace_metric_str(t, name, count)
    \/ \E t \in Threads, name \in CStrNames, count \in Counts :
            Call_trace_metric_saturating(t, name, count)
    \/ \E t \in Threads, name \in StrNames, count \in Counts :
            Call_trace_metric_saturating_str(t, name, count)
    \/ \E t \in Threads, how \in ExitWays : ExitScope(t, how)
    \/ \E t \in Threads : Panic(t)
    \/ \E t \in Threads : Unwind(t)
    \/ \E t \in Threads, g \in GuardIds : DropExplicit(t, g)

Spec == Init /\ [][Next]_vars

NextThreads ==
    \/ \E t \in Threads : EnterScope(t)
    \/ \E t \in Threads, name \in CStrNames : ScopedTrace_start_trace(t, name)
    \/ \E t \in Threads, name \in StrNames : ScopedTrace_start_trace_str(t, name)
    \/ \E t \in Threads, name \in MacroNames : _start_trace_str_with_null(t, name)
    \/ \E t \in Threads, how \in ExitWays : ExitScope(t, how)
    \/ \E t \in Threads : Panic(t)
    \/ \E t \in Threads : Unwind(t)
    \/ \E t \in Threads, g \in GuardIds : DropExplicit(t, g)
    \/ \E t \in Threads, u \in Threads : \E v \in Held(t) : Transfer(t, u, v)
    \/ \E t \in Threads, u \in Threads : \E v \in Held(t) : Share(t, u, v)

SpecThreads == InitThreads /\ [][NextThreads]_vars

InitMacro ==
    /\ item \in Items
    /\ sourceItem = item
    /\ modulePath \in ModulePaths
    /\ mpc = "source"
    /\ TEST_STATE = 0
    /\ frame = NoCall
    /\ observed = <<>>
    /\ ConvIdle
    /\ RunIdle

SpecMacro == InitMacro /\ [][NextMacro]_vars

InitConv ==
    /\ ConvInput(convIn)
    /\ convOut = Pending
    /\ MacroIdle
    /\ RunIdle

SpecConv == InitConv /\ [][NextConv]_vars

-----------------------------------------------------------------------------
(* Claims about the span primitives and the guard *)

Holds(t, g) == \E i \in 1 .. Len(Live(t)) : Live(t)[i] = g

\* C1: in a build that forwards to the sink, every guard's construction
\* issues exactly one start and, however its scope is left (fall-through,
\* early return, unwinding), its destruction issues exactly one finish, after
\* the start; no guard finishes twice or before it started.
C1_GuardLifecycle ==
    \A g \in GuardIds :
        /\ sink.finishes[g] <= sink.starts[g]
        /\ guard[g].state = "unborn" =>
              /\ sink.starts[g] = 0
              /\ \A t \in Threads : ~Holds(t, g)
        /\ guard[g].state = "open" =>
              /\ Holds(guard[g].thread, g)
              /\ status[guard[g].thread] # Dead
              /\ SinkAvailable(cfg) => (sink.starts[g] = 1 /\ sink.finishes[g] = 0)
        /\ guard[g].state = "closed" =>
              /\ \A t \in Threads : ~Holds(t, g)
              /\ SinkAvailable(cfg) => (sink.starts[g] = 1 /\ sink.finishes[g] = 1)

\* a guard was destroyed by unwinding and the sink saw its start and finish
C1_Witness ==
    \E g \in GuardIds :
        /\ SinkAvailable(cfg)
        /\ guard[g].state = "closed"
        /\ status[guard[g].thread] = Dead
        /\ sink.starts[g] = 1 /\ sink.finishes[g] = 1

\* C6: ScopedTrace::start_trace_str with a name containing a NUL byte panics
\* before anything reaches the sink: the sink is unchanged and no guard
\* value is created (so no finish is issued for it).
C6_NulNameAborts ==
    [][\A t \in Threads, name \in StrNames :
          (HasNul(name) /\ ScopedTrace_start_trace_str(t, name)) =>
              /\ sink' = sink
              /\ guard' = guard
              /\ nextGuard' = nextGuard
              /\ scopes' = scopes
              /\ status'[t] = "Contained null-byte"]_vars

\* a construction has just failed on a NUL byte, in a build with a sink
C6_Witness ==
    \E t \in Threads :
        /\ SinkAvailable(cfg)
        /\ status[t] = "Contained null-byte"
        /\ sink.calls = 0
        /\ nextGuard = 1

\* the build with the same features in which the sink is available
AvailableTwin(c) == [c EXCEPT !.ohos = TRUE, !.max_level_off = FALSE]

\* C7: in a build without the sink, every operation of the public call
\* surface exists as in the available build, and the sink receives no call.
C7_UnavailableNoOp ==
    ~SinkAvailable(cfg) =>
        /\ PublicSurface(cfg) = PublicSurface(AvailableTwin(cfg))
        /\ sink = NoSink

\* C9: a guard never leaves the thread that constructed it, by move or by
\* reference, and its finish is issued on the thread that issued its start.
C9_ThreadConfined ==
    \A g \in GuardIds :
        guard[g].state # "unborn" =>
            /\ guard[g].thread = guard[g].bornOn
            /\ <<"ScopedTrace", g>> \notin shared
            /\ SinkAvailable(cfg) =>
                  /\ sink.startedOn[g] = guard[g].bornOn
                  /\ guard[g].state = "closed" =>
                        sink.finishedOn[g] = sink.startedOn[g]

\* both threads have constructed and destroyed a guard, and a Send value
\* (a CString) has moved to the second thread
C9_Witness ==
    /\ SinkAvailable(cfg)
    /\ owned[2] # {}
    /\ \E g \in GuardIds, h \in GuardIds :
          /\ guard[g].state = "closed" /\ guard[g].bornOn = 1
          /\ guard[h].state = "closed" /\ guard[h].bornOn = 2
          /\ sink.finishedOn[g] = 1 /\ sink.finishedOn[h] = 2

Disciplined(t) == ~manualUsed[t] /\ ~outOfOrder[t]

\* C10: on a thread whose spans are opened only by guards destroyed in
\* reverse order of construction, the sink's stack is its initial stack plus
\* one frame per live guard, in order, every guard's finish closes the frame
\* that guard opened, and the depth is back to the initial one when no guard
\* is live.  A manual finish_trace is forwarded as is: when it closes a
\* guard's frame, that guard's own finish closes another frame or none.
C10_Lifo ==
    /\ \A t \in Threads :
          (SinkAvailable(cfg) /\ Disciplined(t)) =>
              /\ Len(sink.stack[t]) = Len(initStack[t]) + Len(Live(t))
              /\ SubSeq(sink.stack[t], 1, Len(initStack[t])) = initStack[t]
              /\ \A i \in 1 .. Len(Live(t)) :
                    sink.stack[t][Len(initStack[t]) + i].by = Live(t)[i]
              /\ \A g \in GuardIds :
                    (guard[g].state = "closed" /\ guard[g].bornOn = t) =>
                        (sink.closed[g] = g /\ sink.closer[g] = g)
    /\ \A g \in GuardIds :
          (sink.closer[g] = 0 /\ guard[g].state = "closed") => sink.closed[g] # g

\* two nested guards were constructed and destroyed in LIFO order above a
\* span that was already open
C10_Witness ==
    \E t \in Threads, g \in GuardIds, h \in GuardIds :
        /\ SinkAvailable(cfg) /\ Disciplined(t)
        /\ g # h
        /\ guard[g].state = "closed" /\ guard[g].bornOn = t
        /\ guard[h].state = "closed" /\ guard[h].bornOn = t
        /\ sink.closed[g] = g /\ sink.closed[h] = h
        /\ initStack[t] # <<>>
        /\ sink.stack[t] = initStack[t]

====
